---- MODULE Spec2Model ----
(***************************************************************************)
(* Model of the two native bridges of the repository:                      *)
(*   - llama_jni.cpp: the JNI model-handle bridge (load, generate, free,   *)
(*     size accessors, tokenize, detokenize) over heap-allocated           *)
(*     LlamaModel objects addressed by pointer-cast jlong handles;         *)
(*   - SherpaONNXBridge.h: the Objective-C text-to-speech bridge.          *)
(***************************************************************************)
EXTENDS Integers, Sequences, FiniteSets, TLC

\* ------------------------------------------------------------------------
\* Bounds of the model
\* ------------------------------------------------------------------------
MaxAddr == 2
MaxLen == 2
MaxSpeakers == 2

\* ------------------------------------------------------------------------
\* Program constants
\* ------------------------------------------------------------------------
VocabSize == 32000
ContextSize == 2048
ModelSizeBytes == 524288000
NullHandle == 0

NotLoadedError == "Error: Model not loaded"
ResponsePrefix == "Generated response from llama.cpp model. This is a placeholder implementation. In a real implementation, this would use the actual llama.cpp library to generate text based on the GGUF model loaded from: "

\* ------------------------------------------------------------------------
\* Inputs
\* ------------------------------------------------------------------------
Addr == 1..MaxAddr
Paths == {"missing/path", "model.gguf"}
Openable(path) == path # "missing/path"
\* bytes of a jstring in modified UTF-8 (never 0); 128 and above are the
\* bytes a signed char holds as negative values
ByteVals == {104, 128, 255}
\* <<prompt, <<maxTokens, temperature*10, topP*10, topK>>>>
GenInputs == {<<"hi", <<10, 7, 9, 40>>>>, <<"", <<0, 0, 0, 0>>>>}

RECURSIVE SeqsUpTo(_, _)
SeqsUpTo(S, n) ==
    IF n = 0 THEN {<<>>}
    ELSE LET shorter == SeqsUpTo(S, n - 1)
         IN  shorter \cup {Append(s, x) : s \in {t \in shorter : Len(t) = n - 1}, x \in S}

Texts == SeqsUpTo(ByteVals, MaxLen)
TokenSeqs == SeqsUpTo({VocabSize - 1}, MaxLen)
ShortTexts == {<<>>, <<200>>}
ShortTokenSeqs == {<<>>, <<VocabSize - 1>>}

VARIABLES
    charSigned,   \* whether plain char is signed in this build (ABI)
    sizeBits,     \* width of size_t in this build
    heap,         \* Addr -> the LlamaModel object (or freed / never allocated memory)
    issued,       \* handles nativeLoadModel has returned to the caller
    released,     \* Addr -> nativeFreeModel was called with it since nativeLoadModel last returned it
    extraRelease, \* some nativeFreeModel call was given a handle already released
    crashed,      \* the process died (one outcome of undefined behaviour)
    last,         \* the last JNI call: arguments, handle state at the call, result
    tts,          \* the SherpaONNXBridge instance
    ttsLast       \* the last SherpaONNXBridge call

llamaVars == <<charSigned, sizeBits, heap, issued, released, extraRelease, crashed, last>>
ttsVars == <<tts, ttsLast>>
vars == <<charSigned, sizeBits, heap, issued, released, extraRelease, crashed, last, tts, ttsLast>>

\* ------------------------------------------------------------------------
\* struct LlamaModel
\* ------------------------------------------------------------------------
Unallocated == [st |-> "unalloc", model_path |-> "", vocab_size |-> 0, context_size |-> 0, loaded |-> FALSE]
\* a delete that leaves the object in place
Freed_kept(m) == m

\* delete, line 83: the object is destroyed and its memory goes back to the allocator
Freed(m) == [Unallocated EXCEPT !.st = "freed"]

\* the constructor, line 19
LlamaModel(path) ==
    [st |-> "live", model_path |-> path, vocab_size |-> VocabSize,
     context_size |-> ContextSize, loaded |-> FALSE]

\* state of the memory a handle points at
HandleState(h) ==
    IF h = NullHandle THEN "null"
    ELSE IF heap[h].st = "live" THEN "live" ELSE "freed"

LiveSet == {a \in Addr : heap[a].st = "live"}

\* handles the caller can pass: null or one it got from nativeLoadModel
Handles == {NullHandle} \cup issued

NoCall ==
    [op |-> "None", h |-> 0, hstate |-> "null", path |-> "", prompt |-> "",
     text |-> <<>>, toks |-> <<>>, rt |-> FALSE, params |-> <<0, 0, 0, 0>>,
     retInt |-> 0, retSeq |-> <<>>, retStr |-> "", retNull |-> FALSE,
     returned |-> FALSE, readModel |-> FALSE, readArg |-> FALSE, deleted |-> FALSE]

Call(op, h) == [NoCall EXCEPT !.op = op, !.h = h, !.hstate = HandleState(h)]

\* the call never returns: the process dies
Crash(call) ==
    /\ crashed' = TRUE
    /\ last' = [call EXCEPT !.returned = FALSE]

Return(call) ==
    /\ crashed' = FALSE
    /\ last' = [call EXCEPT !.returned = TRUE]

\* a load that refuses a path it cannot open with the zero handle
nativeLoadModel_checked(path) ==
    /\ ~crashed
    /\ IF Openable(path)
       THEN \E a \in Addr :
              /\ heap[a].st # "live"
              /\ heap' = [heap EXCEPT ![a] = [LlamaModel(path) EXCEPT !.loaded = TRUE]]
              /\ issued' = issued \cup {a}
              /\ released' = [released EXCEPT ![a] = FALSE]
              /\ Return([Call("Load", NullHandle) EXCEPT !.path = path, !.readArg = TRUE, !.retInt = a])
       ELSE /\ Return([Call("Load", NullHandle) EXCEPT !.path = path, !.readArg = TRUE,
                                                      !.retInt = NullHandle])
            /\ UNCHANGED <<heap, issued, released>>
    /\ UNCHANGED <<charSigned, sizeBits, extraRelease, tts, ttsLast>>

\* ------------------------------------------------------------------------
\* nativeLoadModel, lines 24-42
\* ------------------------------------------------------------------------
nativeLoadModel(path) ==
    /\ ~crashed
    \* new returns any block not holding a live object, a freed one included;
    \* the model has MaxAddr blocks
    /\ \E a \in Addr :
        /\ heap[a].st # "live"
        /\ heap' = [heap EXCEPT ![a] = [LlamaModel(path) EXCEPT !.loaded = TRUE]]
        /\ issued' = issued \cup {a}
        /\ released' = [released EXCEPT ![a] = FALSE]
        /\ Return([Call("Load", NullHandle) EXCEPT !.path = path, !.readArg = TRUE, !.retInt = a])
    /\ UNCHANGED <<charSigned, sizeBits, extraRelease, tts, ttsLast>>

\* ------------------------------------------------------------------------
\* nativeFreeModel, lines 76-85
\* ------------------------------------------------------------------------
nativeFreeModel(h) ==
    /\ ~crashed
    /\ h \in Handles
    /\ LET call == Call("Release", h) IN
       IF h = NullHandle
       THEN /\ Return(call)
            /\ UNCHANGED <<heap, released, extraRelease>>
       ELSE /\ released' = [released EXCEPT ![h] = TRUE]
            /\ extraRelease' = (extraRelease \/ released[h])
            /\ IF heap[h].st = "live"
               THEN /\ heap' = [heap EXCEPT ![h] = Freed(heap[h])]
                    /\ Return([call EXCEPT !.deleted = TRUE])
               ELSE \* delete of an already deleted object: undefined behaviour
                    /\ UNCHANGED heap
                    /\ \/ Return([call EXCEPT !.deleted = TRUE])
                       \/ Crash([call EXCEPT !.deleted = TRUE])
    /\ UNCHANGED <<charSigned, sizeBits, issued, tts, ttsLast>>

\* ------------------------------------------------------------------------
\* Dereferencing a model pointer.  A live object is read as it is; a read
\* through a dangling pointer is undefined behaviour: it observes stale or
\* overwritten field values, or faults (the Crash outcome of the callers).
\* ------------------------------------------------------------------------
\* what freed memory can hold: the bytes of a destroyed model, zeroes, or
\* the data of whatever reused the block
Stale == {[LlamaModel(p) EXCEPT !.st = "freed", !.loaded = TRUE] : p \in Paths}
Zeroed == Freed(Unallocated)
Overwritten == [Zeroed EXCEPT !.model_path = "<garbage>", !.context_size = 7, !.loaded = TRUE]

Deref(h) ==
    IF heap[h].st = "live"
    THEN {heap[h]}
    ELSE Stale \cup {Zeroed, Overwritten}

Dangling(h) == h # NullHandle /\ heap[h].st # "live"

\* ------------------------------------------------------------------------
\* nativeGenerate, lines 44-74
\* ------------------------------------------------------------------------
GenerateText(m) == ResponsePrefix \o m.model_path

nativeGenerate(h, prompt, params) ==
    /\ ~crashed
    /\ h \in Handles
    /\ LET call == [Call("Generate", h) EXCEPT !.prompt = prompt, !.params = params] IN
       \/ /\ h = NullHandle
          /\ Return([call EXCEPT !.retStr = NotLoadedError])
       \/ /\ h # NullHandle
          /\ \E m \in Deref(h) :
               IF ~m.loaded
               THEN Return([call EXCEPT !.readModel = TRUE, !.retStr = NotLoadedError])
               ELSE Return([call EXCEPT !.readModel = TRUE, !.readArg = TRUE,
                                        !.retStr = GenerateText(m)])
       \/ /\ Dangling(h)
          /\ Crash([call EXCEPT !.readModel = TRUE])
    /\ UNCHANGED <<charSigned, sizeBits, heap, issued, released, extraRelease, tts, ttsLast>>

\* ------------------------------------------------------------------------
\* nativeGetModelSize, lines 87-99
\* ------------------------------------------------------------------------
nativeGetModelSize(h) ==
    /\ ~crashed
    /\ h \in Handles
    /\ LET call == Call("GetModelSize", h) IN
       IF h = NullHandle
       THEN Return([call EXCEPT !.retInt = 0])
       ELSE Return([call EXCEPT !.retInt = ModelSizeBytes])
    /\ UNCHANGED <<charSigned, sizeBits, heap, issued, released, extraRelease, tts, ttsLast>>

\* ------------------------------------------------------------------------
\* nativeGetVocabSize, lines 101-111
\* ------------------------------------------------------------------------
nativeGetVocabSize(h) ==
    /\ ~crashed
    /\ h \in Handles
    /\ LET call == Call("GetVocabSize", h) IN
       \/ /\ h = NullHandle
          /\ Return([call EXCEPT !.retInt = 0])
       \/ /\ h # NullHandle
          /\ \E m \in Deref(h) :
               Return([call EXCEPT !.readModel = TRUE, !.retInt = m.vocab_size])
       \/ /\ Dangling(h)
          /\ Crash([call EXCEPT !.readModel = TRUE])
    /\ UNCHANGED <<charSigned, sizeBits, heap, issued, released, extraRelease, tts, ttsLast>>

\* ------------------------------------------------------------------------
\* nativeGetContextSize, lines 113-123
\* ------------------------------------------------------------------------
nativeGetContextSize(h) ==
    /\ ~crashed
    /\ h \in Handles
    /\ LET call == Call("GetContextSize", h) IN
       \/ /\ h = NullHandle
          /\ Return([call EXCEPT !.retInt = 0])
       \/ /\ h # NullHandle
          /\ \E m \in Deref(h) :
               Return([call EXCEPT !.readModel = TRUE, !.retInt = m.context_size])
       \/ /\ Dangling(h)
          /\ Crash([call EXCEPT !.readModel = TRUE])
    /\ UNCHANGED <<charSigned, sizeBits, heap, issued, released, extraRelease, tts, ttsLast>>

\* ------------------------------------------------------------------------
\* nativeTokenize, lines 125-156
\* ------------------------------------------------------------------------
\* base^e mod m without leaving 32-bit range (m <= 32000)
RECURSIVE PowMod(_, _, _)
PowMod(base, e, m) == IF e = 0 THEN 1 % m ELSE (PowMod(base, e - 1, m) * (base % m)) % m

\* input[pos]: plain char, signed or unsigned by ABI
CharVal(b) == IF charSigned /\ b >= 128 THEN b - 256 ELSE b

\* the same expression computed in int, with C's truncating remainder
TokenAt_signed(b, pos, vocab) ==
    LET s == CharVal(b) * 31 + pos
    IN  IF s < 0 THEN 0 - ((0 - s) % vocab) ELSE s % vocab

\* (input[pos] * 31 + pos) % model->vocab_size, line 145: the product is an
\* int, the sum and the remainder are computed in size_t (modulo 2^sizeBits)
TokenAt(b, pos, vocab) ==
    LET s == CharVal(b) * 31 + pos
    IN  IF s < 0 THEN (PowMod(2, sizeBits, vocab) + s) % vocab ELSE s % vocab

\* the loop of lines 142-147; pos is 0-based
Tokens(input, vocab) == [i \in 1..Len(input) |-> TokenAt(input[i], i - 1, vocab)]

nativeTokenize(h, text) ==
    /\ ~crashed
    /\ h \in Handles
    /\ LET call == [Call("Tokenize", h) EXCEPT !.text = text] IN
       \/ /\ h = NullHandle
          /\ Return([call EXCEPT !.retNull = TRUE])
       \/ /\ h # NullHandle
          /\ \E m \in Deref(h) :
               IF ~m.loaded
               THEN Return([call EXCEPT !.readModel = TRUE, !.retNull = TRUE])
               ELSE IF m.vocab_size = 0 /\ Len(text) > 0
               THEN \* remainder by zero: undefined behaviour
                    \/ Crash([call EXCEPT !.readModel = TRUE, !.readArg = TRUE])
                    \/ Return([call EXCEPT !.readModel = TRUE, !.readArg = TRUE,
                                           !.retSeq = [i \in 1..Len(text) |-> 0]])
               ELSE Return([call EXCEPT !.readModel = TRUE, !.readArg = TRUE,
                                        !.retSeq = Tokens(text, m.vocab_size)])
       \/ /\ Dangling(h)
          /\ Crash([call EXCEPT !.readModel = TRUE])
    /\ UNCHANGED <<charSigned, sizeBits, heap, issued, released, extraRelease, tts, ttsLast>>

\* ------------------------------------------------------------------------
\* nativeDetokenize, lines 158-176.  Strings are sequences of byte values.
\* ------------------------------------------------------------------------
RECURSIVE to_string(_)
to_string(n) == IF n < 10 THEN <<48 + n>> ELSE Append(to_string(n \div 10), 48 + (n % 10))

\* a placeholder that counts one token too many
DetokenizedText_offByOne(length) ==
    <<68, 101, 116, 111, 107, 101, 110, 105, 122, 101, 100, 32, 116, 101, 120, 116, 32,
      102, 114, 111, 109, 32>> \o to_string(length + 1) \o <<32, 116, 111, 107, 101, 110, 115>>

\* "Detokenized text from " + std::to_string(length) + " tokens", line 173
DetokenizedText(length) ==
    <<68, 101, 116, 111, 107, 101, 110, 105, 122, 101, 100, 32, 116, 101, 120, 116, 32,
      102, 114, 111, 109, 32>> \o to_string(length) \o <<32, 116, 111, 107, 101, 110, 115>>

\* rt: the tokens are the result of the preceding nativeTokenize call on the
\* same handle, whose input text is kept in the call record
nativeDetokenize(h, toks, rt) ==
    /\ ~crashed
    /\ h \in Handles
    /\ rt => /\ last.op = "Tokenize" /\ last.returned /\ ~last.retNull
             /\ last.h = h /\ toks = last.retSeq
    /\ LET call == [Call("Detokenize", h) EXCEPT !.toks = toks, !.rt = rt,
                        !.text = IF rt THEN last.text ELSE <<>>] IN
       \/ /\ h = NullHandle
          /\ Return([call EXCEPT !.retSeq = <<>>])
       \/ /\ h # NullHandle
          /\ \E m \in Deref(h) :
               IF ~m.loaded
               THEN Return([call EXCEPT !.readModel = TRUE, !.retSeq = <<>>])
               ELSE Return([call EXCEPT !.readModel = TRUE, !.readArg = TRUE,
                                        !.retSeq = DetokenizedText(Len(toks))])
       \/ /\ Dangling(h)
          /\ Crash([call EXCEPT !.readModel = TRUE])
    /\ UNCHANGED <<charSigned, sizeBits, heap, issued, released, extraRelease, tts, ttsLast>>

\* ------------------------------------------------------------------------
\* SherpaONNXBridge.  The header declares the interface; the behaviour of
\* the methods is the documented contract of the synthesis bridge.
\* ------------------------------------------------------------------------
ModelTypes == {"kitten", "vits", "kokoro", "matcha"}
TypeInputs == ModelTypes \cup {"unknown-type"}
SampleRates == {16000, 22050}
SpeakerIds == -1..MaxSpeakers
\* text lengths and speeds (in tenths) offered to the synthesizer
TtsTextLens == {0, 1, 3}
Speeds == {10}
SentenceLengths == {1, 2}

NoInstance ==
    [exists |-> FALSE, valid |-> FALSE, destroys |-> 0, numSpeakers |-> 0,
     sampleRate |-> 0, named |-> FALSE, maxSentenceLength |-> 1]

NoTtsCall ==
    [op |-> "None", wasValid |-> FALSE, textLen |-> 0, speakerId |-> 0,
     retNull |-> FALSE, retInt |-> 0, retBool |-> FALSE, progress |-> <<>>]

TtsCall(op) == [NoTtsCall EXCEPT !.op = op, !.wasValid = tts.valid]

\* initWithModelPath:modelType:numThreads:maxSentenceLength:
initWithModelPath(modelPath, modelType, maxSentenceLength) ==
    /\ ~tts.exists
    /\ IF modelType \in ModelTypes /\ Openable(modelPath)
       THEN \E n \in 1..MaxSpeakers, rate \in SampleRates, named \in BOOLEAN :
              /\ tts' = [exists |-> TRUE, valid |-> TRUE, destroys |-> 0, numSpeakers |-> n,
                         sampleRate |-> rate, named |-> named,
                         maxSentenceLength |-> maxSentenceLength]
              /\ ttsLast' = TtsCall("init")
       ELSE /\ tts' = tts
            /\ ttsLast' = [TtsCall("init") EXCEPT !.retNull = TRUE]
    /\ UNCHANGED llamaVars

\* a range check that forgets the instance may have been destroyed
ValidSpeaker_unchecked(id) == 0 <= id /\ id < tts.numSpeakers

\* isValidSpeaker:
ValidSpeaker(id) == tts.valid /\ 0 <= id /\ id < tts.numSpeakers

\* number of chunks of at most maxSentenceLength a text is split into
Chunks(textLen) == (textLen + tts.maxSentenceLength - 1) \div tts.maxSentenceLength

\* synthesizeText:speakerId:speed:
synthesizeText(textLen, speakerId, speed) ==
    /\ tts.exists
    /\ LET call == [TtsCall("synthesizeText") EXCEPT !.textLen = textLen, !.speakerId = speakerId] IN
       \/ /\ ~ValidSpeaker(speakerId)
          /\ ttsLast' = [call EXCEPT !.retNull = TRUE]
       \/ /\ ValidSpeaker(speakerId)
          /\ \/ ttsLast' = [call EXCEPT !.retInt = textLen * tts.sampleRate]
             \/ ttsLast' = [call EXCEPT !.retNull = TRUE]
    /\ UNCHANGED <<tts, llamaVars>>

\* synthesizeText:speakerId:speed:progress:
synthesizeTextProgress(textLen, speakerId, speed) ==
    /\ tts.exists
    /\ LET call == [TtsCall("synthesizeTextProgress") EXCEPT !.textLen = textLen, !.speakerId = speakerId] IN
       \/ /\ ~ValidSpeaker(speakerId)
          /\ ttsLast' = [call EXCEPT !.retNull = TRUE]
       \/ /\ ValidSpeaker(speakerId)
          /\ \E done \in 0..Chunks(textLen) :
               LET reported == [k \in 1..done |-> (100 * k) \div Chunks(textLen)] IN
               IF done = Chunks(textLen)
               THEN ttsLast' = [call EXCEPT !.retInt = textLen * tts.sampleRate, !.progress = reported]
               ELSE ttsLast' = [call EXCEPT !.retNull = TRUE, !.progress = reported]
    /\ UNCHANGED <<tts, llamaVars>>

\* numberOfSpeakers
numberOfSpeakers ==
    /\ tts.exists
    /\ ttsLast' = [TtsCall("numberOfSpeakers") EXCEPT !.retInt = IF tts.valid THEN tts.numSpeakers ELSE 0]
    /\ UNCHANGED <<tts, llamaVars>>

\* sampleRate
sampleRate ==
    /\ tts.exists
    /\ ttsLast' = [TtsCall("sampleRate") EXCEPT !.retInt = IF tts.valid THEN tts.sampleRate ELSE 0]
    /\ UNCHANGED <<tts, llamaVars>>

\* isValidSpeaker:
isValidSpeaker(speakerId) ==
    /\ tts.exists
    /\ ttsLast' = [TtsCall("isValidSpeaker") EXCEPT !.speakerId = speakerId,
                                                    !.retBool = ValidSpeaker(speakerId)]
    /\ UNCHANGED <<tts, llamaVars>>

\* speakerNameForId: (the name is modelled by the speaker's number)
speakerNameForId(speakerId) ==
    /\ tts.exists
    /\ LET call == [TtsCall("speakerNameForId") EXCEPT !.speakerId = speakerId] IN
       IF ValidSpeaker(speakerId) /\ tts.named
       THEN ttsLast' = [call EXCEPT !.retInt = speakerId]
       ELSE ttsLast' = [call EXCEPT !.retNull = TRUE]
    /\ UNCHANGED <<tts, llamaVars>>

\* destroy
destroy ==
    /\ tts.exists
    /\ tts' = [tts EXCEPT !.valid = FALSE, !.destroys = IF @ < 2 THEN @ + 1 ELSE 2]
    /\ ttsLast' = TtsCall("destroy")
    /\ UNCHANGED llamaVars

Init ==
    /\ charSigned \in BOOLEAN
    /\ sizeBits \in {32, 64}
    /\ heap = [a \in Addr |-> Unallocated]
    /\ issued = {}
    /\ released = [a \in Addr |-> FALSE]
    /\ extraRelease = FALSE
    /\ crashed = FALSE
    /\ last = NoCall
    /\ tts = NoInstance
    /\ ttsLast = NoTtsCall

\* The whole bridge: any number of models, every handler, short texts.
Next ==
    \/ \E path \in Paths : nativeLoadModel(path)
    \/ \E h \in Handles : nativeFreeModel(h)
    \/ \E h \in Handles, in \in GenInputs : nativeGenerate(h, in[1], in[2])
    \/ \E h \in Handles : nativeGetModelSize(h)
    \/ \E h \in Handles : nativeGetVocabSize(h)
    \/ \E h \in Handles : nativeGetContextSize(h)
    \/ \E h \in Handles, text \in ShortTexts : nativeTokenize(h, text)
    \/ \E h \in Handles, toks \in ShortTokenSeqs : nativeDetokenize(h, toks, FALSE)

Spec == Init /\ [][Next]_vars

\* The tokenizer: one model, loaded once, texts up to MaxLen bytes.
NextTok ==
    \/ \E path \in Paths : issued = {} /\ nativeLoadModel(path)
    \/ \E h \in Handles : nativeFreeModel(h)
    \/ \E h \in Handles, text \in Texts : nativeTokenize(h, text)
    \/ \E h \in Handles, toks \in TokenSeqs : nativeDetokenize(h, toks, FALSE)
    \/ \E h \in Handles : nativeDetokenize(h, last.retSeq, TRUE)

SpecTok == Init /\ [][NextTok]_vars

\* The synthesis bridge.
NextTTS ==
    \/ \E modelPath \in Paths, modelType \in TypeInputs, len \in SentenceLengths :
          initWithModelPath(modelPath, modelType, len)
    \/ \E textLen \in TtsTextLens, id \in SpeakerIds, speed \in Speeds : synthesizeText(textLen, id, speed)
    \/ \E textLen \in TtsTextLens, id \in SpeakerIds, speed \in Speeds : synthesizeTextProgress(textLen, id, speed)
    \/ numberOfSpeakers
    \/ sampleRate
    \/ \E id \in SpeakerIds : isValidSpeaker(id)
    \/ \E id \in SpeakerIds : speakerNameForId(id)
    \/ destroy

SpecTTS == Init /\ [][NextTTS]_vars

\* ========================================================================
\* Properties
\* ========================================================================
SizeOps == {"GetModelSize", "GetVocabSize", "GetContextSize"}
QueryOps == SizeOps \cup {"Generate", "Tokenize", "Detokenize"}

\* the error sentinel of each handler
Sentinel(call) ==
    CASE call.op = "Generate" -> call.retStr = NotLoadedError
      [] call.op = "Tokenize" -> call.retNull /\ call.retSeq = <<>>
      [] call.op = "Detokenize" -> call.retSeq = <<>>
      [] call.op \in SizeOps -> call.retInt = 0
      [] OTHER -> FALSE

\* C1: once a handle has been released, every later Generate, Tokenize,
\* Detokenize, GetVocabSize, GetContextSize or GetModelSize call with it
\* returns its error sentinel and does not read the freed model.
C1_ReleasedHandleReportsError ==
    (last.op \in QueryOps /\ last.hstate = "freed") =>
        /\ last.returned
        /\ ~last.readModel
        /\ Sentinel(last)

\* C2: Release of the null handle changes nothing, and a second Release of a
\* handle is a no-op that does not free the resource again.
C2_ReleaseIsSafe ==
    (last.op = "Release" /\ last.hstate # "live") =>
        /\ last.returned
        /\ ~last.deleted

\* C3 (as stated): Load of a path that cannot be opened returns the zero
\* handle; a non-zero handle is returned only when loading succeeded.
C3_FailedLoadReturnsZero ==
    last.op = "Load" =>
        /\ ~Openable(last.path) => last.retInt = NullHandle
        /\ last.retInt # NullHandle => Openable(last.path)

\* C3 (amended): Load never looks at whether the path can be opened: for
\* every path it returns the non-zero address of a newly allocated model
\* that holds the path and is in the loaded state.
C3_LoadAlwaysSucceeds ==
    last.op = "Load" =>
        /\ last.returned
        /\ last.retInt # NullHandle
        /\ last.retInt \in LiveSet
        /\ heap[last.retInt].loaded
        /\ heap[last.retInt].model_path = last.path
        /\ heap[last.retInt].vocab_size = 32000
        /\ heap[last.retInt].context_size = 2048

C3_Witness ==
    /\ last.op = "Load"
    /\ ~Openable(last.path)
    /\ last.retInt # NullHandle
    /\ heap[last.retInt].loaded

\* C4: Generate returns "Error: Model not loaded" whenever the handle is
\* null or its resource is not in the loaded state, whatever the prompt and
\* the numeric parameters, without reading the prompt or the model; for a
\* handle to a loaded resource it returns another text.
C4_GenerateSentinel ==
    last.op = "Generate" =>
        /\ last.returned
        /\ last.hstate = "null" => (last.retStr = NotLoadedError /\ ~last.readArg /\ ~last.readModel)
        /\ last.hstate = "freed" => (last.retStr = NotLoadedError /\ ~last.readArg /\ ~last.readModel)
        /\ last.hstate = "live" => last.retStr # NotLoadedError

\* C5: the three size accessors return 0 for every invalid handle without
\* dereferencing it, and the model's sizes for a valid loaded handle.
C5_AccessorsZeroForInvalid ==
    last.op \in SizeOps =>
        /\ last.returned
        /\ last.hstate # "live" => (last.retInt = 0 /\ ~last.readModel)
        /\ last.hstate = "live" =>
             last.retInt = (CASE last.op = "GetVocabSize" -> heap[last.h].vocab_size
                              [] last.op = "GetContextSize" -> heap[last.h].context_size
                              [] OTHER -> 524288000)

\* C6: for a valid loaded handle Tokenize returns as many tokens as the text
\* has bytes (none for the empty text); for a null or not-loaded handle it
\* returns the null result and no tokens.
C6_TokenizeLength ==
    last.op = "Tokenize" =>
        /\ last.returned
        /\ last.hstate = "live" => (~last.retNull /\ Len(last.retSeq) = Len(last.text))
        /\ last.hstate # "live" => (last.retNull /\ last.retSeq = <<>>)

\* C7: every token Tokenize returns for a valid loaded handle lies in
\* [0, vocab_size) of the handle's model, also for bytes of 128 and above
\* where char is signed.
C7_TokensInRange ==
    (last.op = "Tokenize" /\ last.hstate = "live") =>
        /\ last.returned
        /\ Len(last.retSeq) = Len(last.text)
        /\ \A i \in 1..Len(last.retSeq) :
             0 <= last.retSeq[i] /\ last.retSeq[i] < heap[last.h].vocab_size

C7_Witness ==
    /\ last.op = "Tokenize" /\ last.hstate = "live" /\ last.returned
    /\ charSigned
    /\ Len(last.text) = MaxLen
    /\ \E i \in 1..Len(last.text) : last.text[i] >= 128 /\ last.retSeq[i] > 0

\* C8 (as stated): Detokenize is the inverse of Tokenize: detokenizing the
\* tokens of a text with a valid loaded handle gives the text back.
C8_RoundTrip ==
    (last.op = "Detokenize" /\ last.rt /\ last.hstate = "live") =>
        /\ last.returned
        /\ last.retSeq = last.text

RECURSIVE ParseDecimal(_)
ParseDecimal(digits) ==
    IF Len(digits) = 0 THEN 0
    ELSE 10 * ParseDecimal(SubSeq(digits, 1, Len(digits) - 1)) + (digits[Len(digits)] - 48)

IsDecimal(digits) ==
    /\ Len(digits) > 0
    /\ \A i \in 1..Len(digits) : 48 <= digits[i] /\ digits[i] <= 57

\* "Detokenized text from " and " tokens"
PlaceholderHead ==
    <<68, 101, 116, 111, 107, 101, 110, 105, 122, 101, 100, 32, 116, 101, 120, 116, 32,
      102, 114, 111, 109, 32>>
PlaceholderTail == <<32, 116, 111, 107, 101, 110, 115>>

\* C8 (amended): Detokenize is not the inverse of Tokenize: for a valid
\* loaded handle and a token sequence of any length n, zero included, it
\* returns the text "Detokenized text from n tokens", whatever the tokens.
C8_DetokenizePlaceholder ==
    (last.op = "Detokenize" /\ last.hstate = "live") =>
        /\ last.returned
        /\ LET r == last.retSeq
               nd == Len(r) - Len(PlaceholderHead) - Len(PlaceholderTail)
           IN  /\ nd > 0
               /\ SubSeq(r, 1, Len(PlaceholderHead)) = PlaceholderHead
               /\ SubSeq(r, Len(r) - Len(PlaceholderTail) + 1, Len(r)) = PlaceholderTail
               /\ IsDecimal(SubSeq(r, Len(PlaceholderHead) + 1, Len(PlaceholderHead) + nd))
               /\ ParseDecimal(SubSeq(r, Len(PlaceholderHead) + 1, Len(PlaceholderHead) + nd))
                    = Len(last.toks)

C8_Witness ==
    /\ last.op = "Detokenize" /\ last.rt /\ last.hstate = "live" /\ last.returned
    /\ Len(last.text) > 0
    /\ last.retSeq # last.text

\* every handle Load returned has been released, and exactly once
AllReleasedOnce == ~extraRelease /\ \A a \in issued : released[a]

\* C9: Load followed by Release does not leak: a Load allocates exactly one
\* model, the Release of a loaded handle frees exactly that model, no other
\* handler allocates or frees, and once every Load has been matched by
\* exactly one Release no model is live.
C9_Step ==
    /\ last'.op = "Load" =>
         /\ last'.retInt \notin LiveSet
         /\ LiveSet' = LiveSet \cup {last'.retInt}
    /\ (last'.op = "Release" /\ last'.hstate = "live") => LiveSet' = LiveSet \ {last'.h}
    /\ (last'.op = "Release" /\ last'.hstate = "null") => heap' = heap
    /\ last'.op \in QueryOps => heap' = heap
    /\ AllReleasedOnce' => LiveSet' = {}

C9_NoLeak == [][C9_Step]_vars

C9_Witness ==
    /\ last.op = "Release" /\ last.hstate = "live"
    /\ issued = Addr
    /\ AllReleasedOnce
    /\ LiveSet = {}

TtsQueryOps ==
    {"synthesizeText", "synthesizeTextProgress", "numberOfSpeakers", "sampleRate",
     "isValidSpeaker", "speakerNameForId"}

\* the null / zero / false result of each method
TtsSentinel(call) ==
    CASE call.op \in {"synthesizeText", "synthesizeTextProgress", "speakerNameForId"} ->
            call.retNull /\ call.progress = <<>>
      [] call.op \in {"numberOfSpeakers", "sampleRate"} -> call.retInt = 0
      [] call.op = "isValidSpeaker" -> ~call.retBool
      [] OTHER -> FALSE

\* C10: Destroy is idempotent (a second or later Destroy leaves the
\* instance unchanged) and every method called after Destroy returns its
\* null / zero / false sentinel without using the released resource.
C10_Step ==
    /\ ttsLast'.op = "destroy" => ~tts'.valid
    /\ (ttsLast'.op = "destroy" /\ ~tts.valid) =>
         [tts' EXCEPT !.destroys = 0] = [tts EXCEPT !.destroys = 0]
    /\ (ttsLast'.op \in TtsQueryOps /\ tts.exists /\ ~tts.valid) =>
         /\ TtsSentinel(ttsLast')
         /\ tts' = tts

C10_DestroyIdempotent == [][C10_Step]_vars

C10_Witness ==
    /\ tts.exists /\ tts.destroys = 2 /\ ~tts.valid
    /\ ttsLast.op = "isValidSpeaker" /\ ttsLast.speakerId = 0 /\ ~ttsLast.retBool
====
